---- MODULE Spec2Model ----
(***************************************************************************)
(* Model of the regex core of magic-strings: buildRegex / escapeRegex      *)
(* (the pattern compiler) and testRegexSafe (the guarded evaluator), run   *)
(* on the single-threaded JavaScript event loop of the page.               *)
(*                                                                         *)
(* A JavaScript string is modelled as a sequence of one-character strings, *)
(* so that indexing, splitting and concatenation are what the code does.   *)
(***************************************************************************)
EXTENDS FiniteSets, Integers, Sequences, TLC

\* ------------------------------------------------------------------------
\* Bounds of the model
\* ------------------------------------------------------------------------
\* Longest hand-written pattern string handed to testRegexSafe.
MaxPatLen == 4

\* Longest subject string handed to testRegexSafe.
MaxSubjLen == 2

\* Number of testRegexSafe calls made one after the other on the event loop.
MaxCalls == 2

\* Number of clicks on the copy button.
MaxCopies == 1

\* Longest descriptor list handed to buildRegex in the round-trip model.
MaxCriteria == 1

\* Longest descriptor list handed to buildRegex on its own.
MaxBuildLen == 2

\* Longest string handed to escapeRegex.
MaxEscLen == 2

\* Most calls of storage.ts functions in one behaviour.
MaxStoreOps == 2

\* Most user actions on the page in one behaviour.
MaxUserSteps == 3

\* ------------------------------------------------------------------------
\* Program constants
\* ------------------------------------------------------------------------
REGEX_TIMEOUT_MS == 100

\* Delay of the timer handleCopy starts (setTimeout(..., 2000)).
COPIED_RESET_MS == 2000

InvalidFormatMsg == "Invalid regex pattern format"

TimeoutMsg == "Regex took too long to execute (possible catastrophic backtracking)"

UnknownErrorMsg == "Unknown error"

\* ------------------------------------------------------------------------
\* Strings
\* ------------------------------------------------------------------------
LF == "\n"

CR == "\r"

\* Characters the dot of a JavaScript regular expression does not match.
LineTerminators == {LF, CR}

\* All sequences over alphabet A of length at most n.
StringsUpTo(A, n) == UNION {[1..k -> A] : k \in 0..n}

Chars(s) == {s[k] : k \in 1..Len(s)}

\* String.prototype.includes for a single character.
Includes(s, c) == c \in Chars(s)

Max(S) == CHOOSE x \in S : \A y \in S : y <= x

Min(S) == CHOOSE x \in S : \A y \in S : x <= y

\* ------------------------------------------------------------------------
\* Step 1 of testRegexSafe: the delimited form  /<body>/<flags>
\* ------------------------------------------------------------------------
\* The flag class [gimsuy] of the format check.
LegalFlagLetters == {"g", "i", "m", "s", "u", "y"}

\* A failed String.prototype.match (null).
NoPatternMatch == [ok |-> FALSE, body |-> <<>>, flags |-> <<>>]

\* Variant: the flag class of the format check accepts any character.
DelimiterSplitsAnyFlags(p) ==
    {k \in 3..Len(p) :
        /\ p[1] = "/"
        /\ p[k] = "/"
        /\ \A j \in 2..(k-1) : p[j] \notin LineTerminators}

\* The positions k of the closing delimiter for which
\* /^\/(.+)\/([gimsuy]*)$/ matches p: p starts with "/", 2..k-1 is a
\* non-empty run of characters other than line terminators, p[k] is "/" and
\* everything after it is a flag letter.
DelimiterSplits(p) ==
    {k \in 3..Len(p) :
        /\ p[1] = "/"
        /\ p[k] = "/"
        /\ \A j \in 2..(k-1) : p[j] \notin LineTerminators
        /\ \A j \in (k+1)..Len(p) : p[j] \in LegalFlagLetters}

\* pattern.match(/^\/(.+)\/([gimsuy]*)$/): the greedy (.+) takes the
\* longest body; group 1 is the body, group 2 the flag letters.
PatternMatch(p) ==
    IF DelimiterSplits(p) = {}
    THEN NoPatternMatch
    ELSE LET k == Max(DelimiterSplits(p))
         IN [ok |-> TRUE, body |-> SubSeq(p, 2, k-1), flags |-> SubSeq(p, k+1, Len(p))]

\* ------------------------------------------------------------------------
\* The host regular-expression engine (new RegExp, RegExp.prototype.test,
\* String.prototype.match).  It is given exact semantics on the fragment
\* "literal characters, each optionally followed by *", with "(" as an
\* unterminated group; on any other body its answers are unconstrained.
\* ------------------------------------------------------------------------
\* Characters that stand for themselves in a pattern body.
LiteralChars == {"a", "b", "A", "B", "g", "i", "m", "s", "u", "y", "d", "w", "/", ",", " ", ":"}

EngineModelled(body) == Chars(body) \subseteq (LiteralChars \cup {"*", "("})

\* Simple case folding used under the i flag.
Fold(c) == IF c = "A" THEN "a" ELSE IF c = "B" THEN "b" ELSE c

EngineOk == [ok |-> TRUE, message |-> ""]

EngineError(m) == [ok |-> FALSE, message |-> m]

InvalidFlagsMsg == "Invalid flags supplied to RegExp constructor"

NothingToRepeatMsg == "Invalid regular expression: Nothing to repeat"

UnterminatedGroupMsg == "Invalid regular expression: Unterminated group"

InvalidRegExpMsg == "Invalid regular expression"

EngineRunMsg == "Maximum call stack size exceeded"

\* The flag letters the engine knows.
EngineFlagLetters == {"d", "g", "i", "m", "s", "u", "v", "y"}

\* Flags the constructor refuses: an unknown letter, a repeated letter, or
\* u together with v.
InvalidFlags(fl) ==
    \/ \E j \in 1..Len(fl) : fl[j] \notin EngineFlagLetters
    \/ \E j, k \in 1..Len(fl) : j # k /\ fl[j] = fl[k]
    \/ (Includes(fl, "u") /\ Includes(fl, "v"))

NothingToRepeat(body) ==
    \E k \in 1..Len(body) :
        body[k] = "*" /\ (k = 1 \/ body[k-1] \in {"*", "("})

\* new RegExp(body, flags): the possible results of the constructor.
RegExpConstruct(body, fl) ==
    IF InvalidFlags(fl) THEN {EngineError(InvalidFlagsMsg)}
    ELSE IF ~EngineModelled(body) THEN {EngineOk, EngineError(InvalidRegExpMsg)}
    ELSE IF NothingToRepeat(body) THEN {EngineError(NothingToRepeatMsg)}
    ELSE IF Includes(body, "(") THEN {EngineError(UnterminatedGroupMsg)}
    ELSE {EngineOk}

NoRegExp == [source |-> <<>>, flags |-> <<>>, compiled |-> FALSE]

RegExpObject(body, fl) == [source |-> body, flags |-> fl, compiled |-> TRUE]

\* The body as a sequence of atoms: a literal character, starred or not.
RECURSIVE AtomsFrom(_, _)
AtomsFrom(body, k) ==
    IF k > Len(body) THEN <<>>
    ELSE IF k < Len(body) /\ body[k+1] = "*"
         THEN <<[ch |-> body[k], star |-> TRUE]>> \o AtomsFrom(body, k+2)
         ELSE <<[ch |-> body[k], star |-> FALSE]>> \o AtomsFrom(body, k+1)

Atoms(body) == AtomsFrom(body, 1)

\* Backtracking match of atoms k.. against s from position p (1-based):
\* the position after the match, or 0 when there is none.  A starred atom
\* is greedy: it takes the longest run that lets the rest match.
RECURSIVE MatchFrom(_, _, _, _, _)
MatchFrom(atoms, k, s, p, ci) ==
    IF k > Len(atoms) THEN p
    ELSE LET a == atoms[k]
             eq(q) == q <= Len(s) /\ (IF ci THEN Fold(s[q]) = Fold(a.ch) ELSE s[q] = a.ch)
         IN IF ~a.star
            THEN IF eq(p) THEN MatchFrom(atoms, k+1, s, p+1, ci) ELSE 0
            ELSE LET run == Max({n \in 0..(Len(s) - p + 1) : \A j \in 0..(n-1) : eq(p + j)})
                     good == {n \in 0..run : MatchFrom(atoms, k+1, s, p+n, ci) # 0}
                 IN IF good = {} THEN 0 ELSE MatchFrom(atoms, k+1, s, p + Max(good), ci)

NoExec == [found |-> FALSE, index |-> 0, end |-> 0]

\* RegExp.prototype.exec from lastIndex p: the leftmost match at or after p,
\* or only at p under the sticky flag.
Exec(re, s, p) ==
    LET ci == Includes(re.flags, "i")
        starts == IF Includes(re.flags, "y") THEN {p} ELSE p..(Len(s) + 1)
        hits == {q \in starts : q <= Len(s) + 1 /\ MatchFrom(Atoms(re.source), 1, s, q, ci) # 0}
    IN IF hits = {} THEN NoExec
       ELSE [found |-> TRUE, index |-> Min(hits),
             end |-> MatchFrom(Atoms(re.source), 1, s, Min(hits), ci)]

\* The loop of String.prototype.match with a global regex: every match in
\* order, lastIndex stepping over an empty match.
RECURSIVE MatchAllFrom(_, _, _)
MatchAllFrom(re, s, p) ==
    IF p > Len(s) + 1 THEN <<>>
    ELSE LET m == Exec(re, s, p)
         IN IF ~m.found THEN <<>>
            ELSE <<SubSeq(s, m.index, m.end - 1)>>
                 \o MatchAllFrom(re, s, IF m.end = m.index THEN m.end + 1 ELSE m.end)

NullMatch == [isNull |-> TRUE, parts |-> <<>>]

MatchArray(parts) == [isNull |-> FALSE, parts |-> parts]

\* re.test(s) on a fresh regex (lastIndex 0): the possible results.
RegExpTest(re, s) ==
    IF EngineModelled(re.source) THEN {Exec(re, s, 1).found} ELSE BOOLEAN

\* s.match(re): for a global re every match, otherwise the first match
\* only; null when nothing matches.
StringMatch(s, re) ==
    IF ~EngineModelled(re.source) THEN {NullMatch, MatchArray(<<s>>)}
    ELSE IF Includes(re.flags, "g")
    THEN {IF MatchAllFrom(re, s, 1) = <<>> THEN NullMatch ELSE MatchArray(MatchAllFrom(re, s, 1))}
    ELSE {IF ~Exec(re, s, 1).found THEN NullMatch
          ELSE MatchArray(<<SubSeq(s, Exec(re, s, 1).index, Exec(re, s, 1).end - 1)>>)}

\* ------------------------------------------------------------------------
\* State
\* ------------------------------------------------------------------------
VARIABLES
    criteria,      \* RegexBuilder state: the ordered descriptor list
    flags,         \* RegexBuilder state: the four flags
    regex,         \* RegexBuilder: const regex = buildRegex(criteria, flags) of the last render
    built,         \* number of buildRegex calls made so far
    copied,        \* RegexBuilder state: the "copied" indicator
    ncopies,       \* number of handleCopy clicks so far
    pc,            \* position of the running testRegexSafe call; "idle": the stack is empty
    ncalls,        \* number of testRegexSafe calls started; the running call is call ncalls
    pattern,       \* argument of the running (or last) call
    subject,       \* argument testString of the running (or last) call
    patternMatch,  \* local patternMatch
    re,            \* local re
    testMatches,   \* local testMatches
    timedOut,      \* local timedOut of each call (one closure cell per call)
    timeoutId,     \* local timeoutId
    timers,        \* the host's table of pending timers
    nextTimerId,   \* the id the host gives to the next timer
    outcome,       \* what the last call returned to its caller
    hist,          \* observations about the running (or last) call
    storage,       \* localStorage: what is stored under SAVED_REGEX_STORAGE_KEY
    storeOp,       \* the last call of a storage.ts function: arguments and result
    kept,          \* the records saved by successful calls and not removed since
    nops,          \* number of storage.ts calls made so far
    savedRegexes,  \* Page state: the Spellbook shown in the sidebar
    editingRegex,  \* Page state and RegexBuilder prop: the pattern being edited, or none
    testError,     \* RegexBuilder state: the error of the last test, or "null"
    currentIdRef,  \* RegexBuilder: currentIdRef.current
    saveTimeoutRef, \* RegexBuilder: saveTimeoutRef.current, 0 for null
    saveTimers,    \* the host's pending auto-save timers, each with its closure
    cleanup,       \* the cleanup function the last auto-save effect returned
    committed,     \* the values of the last render whose effects have run
    mounted,       \* RegexBuilder is mounted
    nextId,        \* number of ids generateId has handed out
    nsteps,        \* number of user actions on the page so far
    pageLog        \* the last user action, and the onDelete and onSave calls made

vars == <<criteria, flags, regex, built, copied, ncopies, pc, ncalls, pattern, subject, patternMatch,
          re, testMatches, timedOut, timeoutId, timers, nextTimerId, outcome, hist,
          storage, storeOp, kept, nops, savedRegexes, editingRegex, testError, currentIdRef,
          saveTimeoutRef, saveTimers, cleanup, committed, mounted, nextId, nsteps, pageLog>>

storeVars == <<storage, storeOp, kept, nops>>

pageVars == <<savedRegexes, editingRegex, testError, currentIdRef, saveTimeoutRef, saveTimers,
              cleanup, committed, mounted, nextId, nsteps, pageLog>>

\* Everything outside testRegexSafe and the host's timers.
builderVars == <<criteria, flags, regex, built, storeVars, pageVars>>

\* Wall-clock durations (ms) one run of the engine may take.
Durations == {0, 60, 2000}

\* ------------------------------------------------------------------------
\* Host timers: setTimeout, clearTimeout and the passing of time.  A timer
\* holds the time left until it is due; its callback is run by the event
\* loop, which takes a task only when the stack is empty.
\* ------------------------------------------------------------------------
Timer(id, kind, owner, delay) == [id |-> id, kind |-> kind, owner |-> owner, remaining |-> delay]

SetTimeout(ts, id, kind, owner, delay) == ts \cup {Timer(id, kind, owner, delay)}

\* Variant: clearTimeout that cancels nothing.
ClearTimeoutNothing(ts, id) == ts

ClearTimeout(ts, id) == {t \in ts : t.id # id}

Elapse(ts, d) ==
    {[t EXCEPT !.remaining = IF t.remaining > d THEN t.remaining - d ELSE 0] : t \in ts}

IsDue(ts, id) == \E t \in ts : t.id = id /\ t.remaining = 0

\* ------------------------------------------------------------------------
\* testRegexSafe: outcomes
\* ------------------------------------------------------------------------
NoOutcome == [kind |-> "none", matches |-> FALSE, matchedParts |-> <<>>,
              hasError |-> FALSE, error |-> ""]

\* { matches, matchedParts } without an error field.
Success(m, parts) == [kind |-> "returned", matches |-> m, matchedParts |-> parts,
                      hasError |-> FALSE, error |-> ""]

\* { matches: false, matchedParts: [], error }.
Failure(msg) == [kind |-> "returned", matches |-> FALSE, matchedParts |-> <<>>,
                 hasError |-> TRUE, error |-> msg]

\* An exception that leaves testRegexSafe and reaches its caller.
Escaped(e) == [kind |-> "threw", matches |-> FALSE, matchedParts |-> <<>>,
               hasError |-> TRUE, error |-> e.message]

\* A thrown Error object.
ErrorObject(msg) == [isError |-> TRUE, message |-> msg]

\* Variant: a catch block that rethrows.
CatchRethrow(e) == Escaped(e)

\* Variant: a catch block that drops the engine's message.
CatchUnknown(e) == Failure(UnknownErrorMsg)

\* The outer catch block.
Catch(e) == Failure(IF e.isError THEN e.message ELSE UnknownErrorMsg)

\* Variant: no finally block; only the success path clears the timer.
FinallyNothing(ts, id) == ts

\* The finally block of the inner try.
Finally(ts, id) == ClearTimeout(ts, id)

\* Variant: the short-circuit tests only !pattern.
IsEmptyPatternFalsyOnly(p) == p = <<>>

\* The guard of the short-circuit: !pattern || pattern === "//".
IsEmptyPattern(p) == p = <<>> \/ p = <<"/", "/">>

\* Variant: the collecting RegExp keeps the flags as given.
GlobalFlagsAsGiven(fl) == fl

\* Variant: the collecting RegExp is built with the g flag alone.
GlobalFlagsOnlyG(fl) == <<"g">>

\* The flags of the second, collecting RegExp.
GlobalFlags(fl) == IF Includes(fl, "g") THEN fl ELSE fl \o <<"g">>

NoHist == [created |-> 0, compiles |-> 0, rejected |-> "",
           ranTest |-> FALSE, dueAfterTest |-> FALSE,
           ranCollect |-> FALSE, dueAfterCollect |-> FALSE,
           testFlags |-> <<"-">>, testResult |-> FALSE,
           matchFlags |-> <<"-">>, matchResult |-> NullMatch,
           fired |-> {}, expired |-> {}]

\* The observations that outlive a call.
NewHist == [NoHist EXCEPT !.fired = hist.fired, !.expired = hist.expired]

\* ------------------------------------------------------------------------
\* testRegexSafe, one action per stretch of the synchronous call.  No other
\* action is enabled while pc # "idle": the call runs to completion.
\* ------------------------------------------------------------------------
\* The call returns o to its caller; ts is the timer table it leaves.
Return(o, ts, h) ==
    /\ pc' = "idle"
    /\ outcome' = o
    /\ timers' = ts
    /\ hist' = h

\* Entry: the empty-pattern short-circuit, the format check, and the start
\* of the timer.
Enter(p, s) ==
    /\ pc = "idle"
    /\ ncalls < MaxCalls
    /\ ncalls' = ncalls + 1
    /\ pattern' = p
    /\ subject' = s
    /\ re' = NoRegExp
    /\ testMatches' = FALSE
    /\ UNCHANGED <<builderVars, copied, ncopies>>
    /\ IF IsEmptyPattern(p)
       THEN /\ Return(Success(FALSE, <<>>), timers, NewHist)
            /\ patternMatch' = NoPatternMatch
            /\ UNCHANGED <<timedOut, timeoutId, nextTimerId>>
       ELSE IF ~PatternMatch(p).ok
       THEN /\ Return(Failure(InvalidFormatMsg), timers, NewHist)
            /\ patternMatch' = PatternMatch(p)
            /\ UNCHANGED <<timedOut, timeoutId, nextTimerId>>
       ELSE /\ patternMatch' = PatternMatch(p)
            /\ timedOut' = [timedOut EXCEPT ![ncalls + 1] = FALSE]
            /\ timeoutId' = nextTimerId
            /\ nextTimerId' = nextTimerId + 1
            /\ timers' = SetTimeout(timers, nextTimerId, "regexTimeout", ncalls + 1,
                                    REGEX_TIMEOUT_MS)
            /\ hist' = [NewHist EXCEPT !.created = 1]
            /\ outcome' = NoOutcome
            /\ pc' = "compile"

\* const re = new RegExp(patternMatch[1], patternMatch[2]); first check of
\* timedOut.
Compile ==
    /\ pc = "compile"
    /\ UNCHANGED <<builderVars, copied, ncopies, ncalls, pattern, subject, patternMatch,
                   testMatches, timedOut, timeoutId, nextTimerId>>
    /\ \E r \in RegExpConstruct(patternMatch.body, patternMatch.flags) :
         LET h == [hist EXCEPT !.compiles = @ + 1, !.testFlags = patternMatch.flags,
                               !.rejected = r.message]
         IN IF ~r.ok
            THEN /\ Return(Catch(ErrorObject(r.message)), Finally(timers, timeoutId), h)
                 /\ re' = NoRegExp
            ELSE IF timedOut[ncalls]
            THEN /\ Return(Failure(TimeoutMsg), Finally(timers, timeoutId), h)
                 /\ re' = RegExpObject(patternMatch.body, patternMatch.flags)
            ELSE /\ re' = RegExpObject(patternMatch.body, patternMatch.flags)
                 /\ pc' = "test"
                 /\ hist' = h
                 /\ UNCHANGED <<timers, outcome>>

\* const testMatches = re.test(testString); second check of timedOut.  The
\* run takes d ms and may end with an exception of the engine.
RunTest ==
    /\ pc = "test"
    /\ UNCHANGED <<builderVars, copied, ncopies, ncalls, pattern, subject, patternMatch,
                   re, timedOut, timeoutId, nextTimerId>>
    /\ \E d \in Durations, fault \in BOOLEAN, b \in RegExpTest(re, subject) :
         LET ts == Elapse(timers, d)
             due == IsDue(ts, timeoutId)
             h == [hist EXCEPT !.ranTest = ~fault, !.dueAfterTest = due,
                               !.testResult = b,
                               !.expired = IF due THEN @ \cup {ncalls} ELSE @]
         IN IF fault
            THEN /\ Return(Catch(ErrorObject(EngineRunMsg)), Finally(ts, timeoutId), h)
                 /\ UNCHANGED testMatches
            ELSE IF timedOut[ncalls]
            THEN /\ Return(Failure(TimeoutMsg), Finally(ts, timeoutId), h)
                 /\ testMatches' = b
            ELSE /\ testMatches' = b
                 /\ pc' = "collect"
                 /\ timers' = ts
                 /\ hist' = h
                 /\ UNCHANGED outcome

\* const allMatches = testString.match(new RegExp(..., flags with g));
\* clearTimeout(timeoutId); return { matches, matchedParts }.
Collect ==
    /\ pc = "collect"
    /\ UNCHANGED <<builderVars, copied, ncopies, ncalls, pattern, subject, patternMatch,
                   re, testMatches, timedOut, timeoutId, nextTimerId>>
    /\ LET gf == GlobalFlags(patternMatch.flags)
       IN \E r \in RegExpConstruct(patternMatch.body, gf) :
            LET h0 == [hist EXCEPT !.compiles = @ + 1, !.matchFlags = gf,
                                   !.rejected = r.message]
            IN IF ~r.ok
               THEN Return(Catch(ErrorObject(r.message)), Finally(timers, timeoutId), h0)
               ELSE \E d \in Durations, fault \in BOOLEAN,
                       m \in StringMatch(subject, RegExpObject(patternMatch.body, gf)) :
                      LET ts == Elapse(timers, d)
                          due == IsDue(ts, timeoutId)
                          h == [h0 EXCEPT !.ranCollect = ~fault, !.dueAfterCollect = due,
                                          !.matchResult = m,
                                          !.expired = IF due THEN @ \cup {ncalls} ELSE @]
                      IN IF fault
                         THEN Return(Catch(ErrorObject(EngineRunMsg)),
                                     Finally(ts, timeoutId), h)
                         ELSE Return(Success(testMatches, IF m.isNull THEN <<>> ELSE m.parts),
                                     Finally(ClearTimeout(ts, timeoutId), timeoutId), h)

\* ------------------------------------------------------------------------
\* The rest of the event loop
\* ------------------------------------------------------------------------
\* The callback of a timer: () => { timedOut = true } of testRegexSafe, or
\* () => setCopied(false) of handleCopy.
RunTimer ==
    /\ pc = "idle"
    /\ \E t \in timers :
         /\ t.remaining = 0
         /\ timers' = timers \ {t}
         /\ IF t.kind = "regexTimeout"
            THEN /\ timedOut' = [timedOut EXCEPT ![t.owner] = TRUE]
                 /\ hist' = [hist EXCEPT !.fired = @ \cup {t.owner}]
                 /\ UNCHANGED copied
            ELSE /\ copied' = FALSE
                 /\ UNCHANGED <<timedOut, hist>>
    /\ UNCHANGED <<builderVars, ncopies, pc, ncalls, pattern, subject, patternMatch, re,
                   testMatches, timeoutId, nextTimerId, outcome>>

\* Nothing runs: time passes until the next pending timer is due.
Idle ==
    /\ pc = "idle"
    /\ timers # {}
    /\ \A t \in timers : t.remaining > 0
    /\ timers' = Elapse(timers, Min({t.remaining : t \in timers}))
    /\ UNCHANGED <<builderVars, copied, ncopies, pc, ncalls, pattern, subject, patternMatch,
                   re, testMatches, timedOut, timeoutId, nextTimerId, outcome, hist>>

\* RegexBuilder.handleCopy: setCopied(true); setTimeout(() => setCopied(false), 2000).
HandleCopy ==
    /\ pc = "idle"
    /\ ncopies < MaxCopies
    /\ ncopies' = ncopies + 1
    /\ copied' = TRUE
    /\ timers' = SetTimeout(timers, nextTimerId, "copied", 0, COPIED_RESET_MS)
    /\ nextTimerId' = nextTimerId + 1
    /\ UNCHANGED <<builderVars, pc, ncalls, pattern, subject, patternMatch, re,
                   testMatches, timedOut, timeoutId, outcome, hist>>

\* ------------------------------------------------------------------------
\* Specifications
\* ------------------------------------------------------------------------
NoFlags == [global |-> FALSE, caseInsensitive |-> FALSE, multiline |-> FALSE, dotAll |-> FALSE]

\* The value of a property an object does not have.
Undefined == "undefined"

\* A SavedRegex object; name is Undefined when the object has no name.
SavedRegex(id, name, cs, fl, rx, createdAt) ==
    [id |-> id, name |-> name, criteria |-> cs, flags |-> fl, regex |-> rx,
     createdAt |-> createdAt]

NoRecord == SavedRegex("", Undefined, <<>>, NoFlags, <<>>, 0)

\* localStorage with nothing under the key, and no storage.ts call made.
NoItem == [kind |-> "null", items |-> <<>>]

OkEnv == [hasWindow |-> TRUE, get |-> "ok", set |-> "ok"]

NoStoreOp == [op |-> "none", id |-> "", record |-> NoRecord, env |-> OkEnv, threw |-> FALSE,
              error |-> "null", before |-> NoItem, loaded |-> <<>>]

InitStore ==
    /\ storage = NoItem
    /\ storeOp = NoStoreOp
    /\ kept = {}
    /\ nops = 0

\* generateId(): the n-th id handed out.
GenerateId(n) == ToString(n)

\* An effect that returned no cleanup function.
NoCleanup == [has |-> FALSE, quick |-> 0]

\* No render has been committed yet.
NotRendered == [any |-> FALSE, criteria |-> <<>>, flags |-> NoFlags, testError |-> "null",
                editingRegex |-> NoRecord]

NoSave == [fired |-> FALSE, kind |-> "", saved |-> NoRecord, criteria |-> <<>>,
           flags |-> NoFlags, testError |-> "null"]

NoPageLog == [user |-> "none", edited |-> "", deletes |-> {}, lastSave |-> NoSave]

\* The page before it is used: nothing saved, nothing edited, no timers.
InitPageIdle ==
    /\ savedRegexes = <<>>
    /\ editingRegex = NoRecord
    /\ testError = "null"
    /\ currentIdRef = GenerateId(1)
    /\ saveTimeoutRef = 0
    /\ saveTimers = {}
    /\ cleanup = NoCleanup
    /\ committed = NotRendered
    /\ mounted = FALSE
    /\ nextId = 1
    /\ nsteps = 0
    /\ pageLog = NoPageLog

InitCall ==
    /\ copied = FALSE
    /\ ncopies = 0
    /\ pc = "idle"
    /\ ncalls = 0
    /\ pattern = <<>>
    /\ subject = <<>>
    /\ patternMatch = NoPatternMatch
    /\ re = NoRegExp
    /\ testMatches = FALSE
    /\ timedOut = [c \in 1..(MaxCalls + 1) |-> FALSE]
    /\ timeoutId = 0
    /\ timers = {}
    /\ nextTimerId = 1
    /\ outcome = NoOutcome
    /\ hist = NoHist

Init ==
    /\ criteria = <<>>
    /\ flags = NoFlags
    /\ regex = <<>>
    /\ built = 0
    /\ InitCall
    /\ InitStore
    /\ InitPageIdle

\* Hand-written patterns: every string over PatternAlphabet up to MaxPatLen.
PatternAlphabet == {"/", "a", "g", "i", "y", "(", "*", LF}

SubjectAlphabet == {"a", "A"}

Patterns == StringsUpTo(PatternAlphabet, MaxPatLen)

Subjects == StringsUpTo(SubjectAlphabet, MaxSubjLen)

\* testRegexSafe(pattern, testString) called once with a hand-written pattern.
Evaluate == ncalls = 0 /\ \E p \in Patterns, s \in Subjects : Enter(p, s)

Next == Evaluate \/ Compile \/ RunTest \/ Collect

Spec == Init /\ [][Next]_vars

\* The event loop: several calls in a row, the page's other timer, and
\* the timer callbacks.
LoopPatterns ==
    { <<>>, <<"/", "/">>, <<"a">>, <<"/", "a", "/">>, <<"/", "a", "/", "g">>,
      <<"/", "(", "/">>, <<"/", "a", "*", "/", "i">> }

LoopSubjects == { <<"a">>, <<"A", "a">> }

EvaluateLoop == \E p \in LoopPatterns, s \in LoopSubjects : Enter(p, s)

NextLoop == EvaluateLoop \/ Compile \/ RunTest \/ Collect \/ HandleCopy \/ RunTimer \/ Idle

SpecLoop == Init /\ [][NextLoop]_vars

\* Variant: the backslash is missing from the character class.
SpecialCharsNoBackslash == {".", "*", "+", "?", "^", "$", "{", "}", "(", ")", "|", "[", "]"}

\* ------------------------------------------------------------------------
\* The pattern compiler: escapeRegex, needsGrouping, wrapInGroup, buildRegex
\* ------------------------------------------------------------------------
\* The character class [.*+?^${}()|[\]\\] of escapeRegex.
SpecialChars == {".", "*", "+", "?", "^", "$", "{", "}", "(", ")", "|", "[", "]", "\\"}

\* str.replace(/[.*+?^${}()|[\]\\]/g, "\\$&")
RECURSIVE escapeRegex(_)
escapeRegex(str) ==
    IF str = <<>> THEN <<>>
    ELSE (IF Head(str) \in SpecialChars THEN <<"\\", Head(str)>> ELSE <<Head(str)>>)
         \o escapeRegex(Tail(str))

\* Variant: every non-empty value of the three kinds is grouped.
needsGroupingAnyLength(type, value) ==
    IF type = "contains" \/ type = "literal" \/ type = "ends_with" THEN Len(value) > 0
    ELSE FALSE

needsGrouping(type, value) ==
    IF type \in {"digit", "word_char", "whitespace", "any_char"} THEN FALSE
    ELSE IF type \in {"letter_upper", "letter_lower", "custom_class", "not"} THEN FALSE
    ELSE IF type = "group" \/ type = "or" THEN FALSE
    ELSE IF type = "starts_with" \/ type = "exact" THEN FALSE
    ELSE IF type = "contains" \/ type = "literal" \/ type = "ends_with" THEN Len(value) > 1
    ELSE FALSE

wrapInGroup(part, shouldGroup) ==
    IF shouldGroup THEN <<"(", "?", ":">> \o part \o <<")">> ELSE part

\* Characters String.prototype.trim removes.
WhiteSpace == {" ", "\t", LF, CR}

\* value.split(","): the pieces between the commas, in order.
RECURSIVE SplitComma(_, _)
SplitComma(str, piece) ==
    IF str = <<>> THEN <<piece>>
    ELSE IF Head(str) = "," THEN <<piece>> \o SplitComma(Tail(str), <<>>)
    ELSE SplitComma(Tail(str), Append(piece, Head(str)))

RECURSIVE TrimStart(_)
TrimStart(str) ==
    IF str # <<>> /\ Head(str) \in WhiteSpace THEN TrimStart(Tail(str)) ELSE str

RECURSIVE TrimEnd(_)
TrimEnd(str) ==
    IF str # <<>> /\ str[Len(str)] \in WhiteSpace
    THEN TrimEnd(SubSeq(str, 1, Len(str) - 1)) ELSE str

Trim(str) == TrimEnd(TrimStart(str))

\* pieces.join("|")
RECURSIVE JoinBar(_)
JoinBar(pieces) ==
    IF pieces = <<>> THEN <<>>
    ELSE IF Len(pieces) = 1 THEN pieces[1]
    ELSE pieces[1] \o <<"|">> \o JoinBar(Tail(pieces))

\* Variant: the pieces are escaped without being trimmed.
OrAlternativesNoTrim(value) ==
    LET pieces == SplitComma(value, <<>>)
    IN JoinBar([k \in 1..Len(pieces) |-> escapeRegex(pieces[k])])

\* c.value.split(",").map((s) => escapeRegex(s.trim())).join("|")
OrAlternatives(value) ==
    LET pieces == SplitComma(value, <<>>)
    IN JoinBar([k \in 1..Len(pieces) |-> escapeRegex(Trim(pieces[k]))])

\* Variant: the value of a custom class is escaped like a literal.
TypePartEscapedClass(c) ==
    CASE c.type = "starts_with" -> <<"^">> \o escapeRegex(c.value)
      [] c.type = "exact" -> <<"^">> \o escapeRegex(c.value) \o <<"$">>
      [] c.type = "digit" -> <<"\\", "d">>
      [] c.type = "word_char" -> <<"\\", "w">>
      [] c.type = "whitespace" -> <<"\\", "s">>
      [] c.type = "any_char" -> <<".">>
      [] c.type = "letter_upper" -> <<"[", "A", "-", "Z", "]">>
      [] c.type = "letter_lower" -> <<"[", "a", "-", "z", "]">>
      [] c.type = "custom_class" -> <<"[">> \o escapeRegex(c.value) \o <<"]">>
      [] c.type = "group" -> <<"(">> \o c.value \o <<")">>
      [] c.type = "or" -> <<"(", "?", ":">> \o OrAlternatives(c.value) \o <<")">>
      [] c.type = "not" -> <<"[", "^">> \o c.value \o <<"]">>
      [] OTHER -> escapeRegex(c.value)

\* The switch on c.type: the part before grouping and quantifier.
TypePart(c) ==
    CASE c.type = "starts_with" -> <<"^">> \o escapeRegex(c.value)
      [] c.type = "ends_with" -> escapeRegex(c.value)
      [] c.type = "contains" -> escapeRegex(c.value)
      [] c.type = "exact" -> <<"^">> \o escapeRegex(c.value) \o <<"$">>
      [] c.type = "digit" -> <<"\\", "d">>
      [] c.type = "word_char" -> <<"\\", "w">>
      [] c.type = "whitespace" -> <<"\\", "s">>
      [] c.type = "any_char" -> <<".">>
      [] c.type = "letter_upper" -> <<"[", "A", "-", "Z", "]">>
      [] c.type = "letter_lower" -> <<"[", "a", "-", "z", "]">>
      [] c.type = "custom_class" -> <<"[">> \o c.value \o <<"]">>
      [] c.type = "group" -> <<"(">> \o c.value \o <<")">>
      [] c.type = "or" -> <<"(", "?", ":">> \o OrAlternatives(c.value) \o <<")">>
      [] c.type = "not" -> <<"[", "^">> \o c.value \o <<"]">>
      [] c.type = "literal" -> escapeRegex(c.value)
      [] OTHER -> escapeRegex(c.value)

\* The separate anchor of ends_with.
TypeAnchor(c) == IF c.type = "ends_with" THEN <<"$">> ELSE <<>>

\* Variant: lazy repetition emits the greedy star.
QuantifierSuffixLazyGreedy(c) ==
    IF c.type \in {"starts_with", "ends_with", "exact"} THEN <<>>
    ELSE CASE c.quantifier = "zero_or_more" -> <<"*">>
           [] c.quantifier = "one_or_more" -> <<"+">>
           [] c.quantifier = "optional" -> <<"?">>
           [] c.quantifier = "lazy" -> <<"*">>
           [] OTHER -> <<>>

\* Variant: ends_with is missing from the list of types that skip the switch.
QuantifierSuffixEndsWith(c) ==
    IF c.type \in {"starts_with", "exact"} THEN <<>>
    ELSE CASE c.quantifier = "zero_or_more" -> <<"*">>
           [] c.quantifier = "one_or_more" -> <<"+">>
           [] c.quantifier = "optional" -> <<"?">>
           [] c.quantifier = "lazy" -> <<"*", "?">>
           [] OTHER -> <<>>

\* The switch on c.quantifier, skipped for the anchored types.
QuantifierSuffix(c) ==
    IF c.type \in {"starts_with", "ends_with", "exact"} THEN <<>>
    ELSE CASE c.quantifier = "zero_or_more" -> <<"*">>
           [] c.quantifier = "one_or_more" -> <<"+">>
           [] c.quantifier = "optional" -> <<"?">>
           [] c.quantifier = "lazy" -> <<"*", "?">>
           [] c.quantifier = "custom" -> <<>>
           [] OTHER -> <<>>

\* Variant: the anchor is appended to the part before it is wrapped.
FragmentAnchorInside(cs, i) ==
    LET c == cs[i]
        shouldGroup == Len(cs) > 1 /\ i > 1 /\ needsGrouping(c.type, c.value)
    IN wrapInGroup(TypePart(c) \o TypeAnchor(c), shouldGroup) \o QuantifierSuffix(c)

\* Variant: a descriptor counts as the first when it carries the first one's id.
FragmentFirstById(cs, i) ==
    LET c == cs[i]
        shouldGroup == Len(cs) > 1 /\ c.id # cs[1].id /\ needsGrouping(c.type, c.value)
    IN wrapInGroup(TypePart(c), shouldGroup) \o QuantifierSuffix(c) \o TypeAnchor(c)

\* Variant: isNotFirst is dropped, only the length of the list decides.
FragmentGroupsFirst(cs, i) ==
    LET c == cs[i]
        shouldGroup == Len(cs) > 1 /\ needsGrouping(c.type, c.value)
    IN wrapInGroup(TypePart(c), shouldGroup) \o QuantifierSuffix(c) \o TypeAnchor(c)

\* One round of the loop: what criteria[i] adds to pattern.
Fragment(cs, i) ==
    LET c == cs[i]
        hasMultipleCriteria == Len(cs) > 1
        isNotFirst == i > 1
        shouldGroup == hasMultipleCriteria /\ isNotFirst /\ needsGrouping(c.type, c.value)
    IN wrapInGroup(TypePart(c), shouldGroup) \o QuantifierSuffix(c) \o TypeAnchor(c)

\* The loop over criteria[i..].
RECURSIVE BodyFrom(_, _)
BodyFrom(cs, i) ==
    IF i > Len(cs) THEN <<>> ELSE Fragment(cs, i) \o BodyFrom(cs, i + 1)

\* Variant: the case-insensitive letter is appended before the global one.
FlagStrSwapped(fl) ==
    (IF fl.caseInsensitive THEN <<"i">> ELSE <<>>)
    \o (IF fl.global THEN <<"g">> ELSE <<>>)
    \o (IF fl.multiline THEN <<"m">> ELSE <<>>)
    \o (IF fl.dotAll THEN <<"s">> ELSE <<>>)

FlagStr(fl) ==
    (IF fl.global THEN <<"g">> ELSE <<>>)
    \o (IF fl.caseInsensitive THEN <<"i">> ELSE <<>>)
    \o (IF fl.multiline THEN <<"m">> ELSE <<>>)
    \o (IF fl.dotAll THEN <<"s">> ELSE <<>>)

\* Variant: no early return for the empty list.
buildRegexNoEmptyCheck(cs, fl) ==
    IF FlagStr(fl) # <<>>
    THEN <<"/">> \o BodyFrom(cs, 1) \o <<"/">> \o FlagStr(fl)
    ELSE <<"/">> \o BodyFrom(cs, 1) \o <<"/">>

buildRegex(cs, fl) ==
    IF Len(cs) = 0 THEN <<>>
    ELSE IF FlagStr(fl) # <<>>
         THEN <<"/">> \o BodyFrom(cs, 1) \o <<"/">> \o FlagStr(fl)
         ELSE <<"/">> \o BodyFrom(cs, 1) \o <<"/">>

\* ------------------------------------------------------------------------
\* Round trip: the compiled pattern of a descriptor list handed to
\* testRegexSafe, as RegexBuilder.handleTest and the tests do.
\* ------------------------------------------------------------------------
CriterionTypes ==
    {"starts_with", "ends_with", "contains", "exact", "digit", "word_char", "whitespace",
     "any_char", "letter_upper", "letter_lower", "custom_class", "group", "or", "not",
     "literal"}

\* A type outside the fixed set.
UnknownType == "unknown"

Quantifiers == {"one", "zero_or_more", "one_or_more", "optional", "lazy", "custom"}

AllFlags == [global : BOOLEAN, caseInsensitive : BOOLEAN, multiline : BOOLEAN, dotAll : BOOLEAN]

Criterion(id, type, value, quantifier) ==
    [id |-> id, type |-> type, value |-> value, quantifier |-> quantifier]

RoundTripValues == { <<>>, <<"a">>, <<"a", "b">>, <<"a", LF>> }

RoundTripQuantifiers == {"one", "zero_or_more"}

RoundTripCriteria ==
    {Criterion("1", t, v, q) : t \in CriterionTypes \cup {UnknownType},
                               v \in RoundTripValues, q \in RoundTripQuantifiers}

RoundTripLists == UNION {[1..k -> RoundTripCriteria] : k \in 0..MaxCriteria}

RoundTripSubjects == { <<"a", "b">> }

InitRoundTrip ==
    /\ criteria \in RoundTripLists
    /\ flags \in AllFlags
    /\ regex = <<>>
    /\ built = 0
    /\ InitCall
    /\ InitStore
    /\ InitPageIdle

\* testRegexSafe(buildRegex(criteria, flags), testString)
EvaluateCompiled ==
    /\ ncalls = 0
    /\ \E s \in RoundTripSubjects : Enter(buildRegex(criteria, flags), s)

NextRoundTrip == EvaluateCompiled \/ Compile \/ RunTest \/ Collect

SpecRoundTrip == InitRoundTrip /\ [][NextRoundTrip]_vars

\* ------------------------------------------------------------------------
\* The compiler on its own: RegexBuilder renders with a descriptor list and
\* a flag set, and the render calls buildRegex(criteria, flags).
\* ------------------------------------------------------------------------
\* const regex = buildRegex(criteria, flags)
Render ==
    /\ built = 0
    /\ regex' = buildRegex(criteria, flags)
    /\ built' = built + 1
    /\ UNCHANGED <<criteria, flags, copied, ncopies, pc, ncalls, pattern, subject,
                   patternMatch, re, testMatches, timedOut, timeoutId, timers,
                   nextTimerId, outcome, hist, storeVars, pageVars>>

\* A quantifier outside the fixed set.
OtherQuantifier == "twice"

BuildValues ==
    { <<>>, <<"a">>, <<".">>, <<"a", "b">>, <<"a", " ", ",", " ", ".">> }

\* The descriptor under study: every type, value and quantifier.
FocusCriteria ==
    {Criterion("f", t, v, q) : t \in CriterionTypes \cup {UnknownType},
                               v \in BuildValues,
                               q \in Quantifiers \cup {OtherQuantifier}}

\* The descriptors around it.
ContextCriteria ==
    { Criterion("c", "starts_with", <<"a">>, "one"),
      Criterion("c", "contains", <<"a", "b">>, "zero_or_more"),
      Criterion("c", "digit", <<>>, "one_or_more"),
      Criterion("c", "ends_with", <<"a", "b">>, "one") }

\* generateId gives every descriptor of a list its own id.
WithIds(cs) == [k \in 1..Len(cs) |-> [cs[k] EXCEPT !.id = ToString(k)]]

\* Lists of up to MaxBuildLen descriptors, one of them the descriptor under
\* study, at any position.
BuildLists ==
    {<<>>} \cup
    UNION {UNION {{WithIds([k \in 1..n |-> IF k = f THEN x ELSE ctx[k]]) :
                      x \in FocusCriteria, ctx \in [1..n -> ContextCriteria]} :
                  f \in 1..n} :
           n \in 1..MaxBuildLen}

InitBuild ==
    /\ criteria \in BuildLists
    /\ flags = NoFlags
    /\ regex = <<>>
    /\ built = 0
    /\ InitCall
    /\ InitStore
    /\ InitPageIdle

NextBuild == Render

SpecBuild == InitBuild /\ [][NextBuild]_vars

\* Every flag combination, on short lists.
FlagLists == {WithIds(cs) : cs \in UNION {[1..n -> ContextCriteria] : n \in 0..MaxBuildLen}}

InitFlags ==
    /\ criteria \in FlagLists
    /\ flags \in AllFlags
    /\ regex = <<>>
    /\ built = 0
    /\ InitCall
    /\ InitStore
    /\ InitPageIdle

NextFlags == Render

SpecFlags == InitFlags /\ [][NextFlags]_vars

\* escapeRegex on every short string over the special characters and two
\* ordinary ones, as the value of a single literal descriptor.
EscapeAlphabet ==
    {".", "*", "+", "?", "^", "$", "{", "}", "(", ")", "|", "[", "]", "\\", "a", "b"}

EscapeInputs == StringsUpTo(EscapeAlphabet, MaxEscLen)

InitEscape ==
    /\ criteria \in {<<Criterion("1", "literal", v, "one")>> : v \in EscapeInputs}
    /\ flags = NoFlags
    /\ regex = <<>>
    /\ built = 0
    /\ InitCall
    /\ InitStore
    /\ InitPageIdle

NextEscape == Render

SpecEscape == InitEscape /\ [][NextEscape]_vars

\* ------------------------------------------------------------------------
\* storage.ts: the Spellbook in localStorage
\* ------------------------------------------------------------------------
callVars == <<copied, ncopies, pc, ncalls, pattern, subject, patternMatch, re, testMatches,
              timedOut, timeoutId, timers, nextTimerId, outcome, hist>>

\* JSON.stringify of one object: a property whose value is undefined is
\* left out of the text.
JsonObject(r) == IF r.name = Undefined THEN [f \in (DOMAIN r) \ {"name"} |-> r[f]] ELSE r

\* JSON.stringify(regexes), as the value JSON.parse gives back for it.
Stringify(regexes) ==
    [kind |-> "array", items |-> [k \in 1..Len(regexes) |-> JsonObject(regexes[k])]]

\* Stored text that is not JSON, and stored JSON that is not an array.
InvalidJson == [kind |-> "invalid", items |-> <<>>]

NotAnArray == [kind |-> "object", items |-> <<>>]

\* The filter of loadSavedRegexes: the six typeof checks on one parsed item.
IsSavedRegex(item) ==
    /\ "id" \in DOMAIN item
    /\ "name" \in DOMAIN item
    /\ "criteria" \in DOMAIN item
    /\ "flags" \in DOMAIN item
    /\ "regex" \in DOMAIN item
    /\ "createdAt" \in DOMAIN item

\* What localStorage.setItem or removeItem may throw.
ThrownKinds == {"quota", "security", "denied", "other", "value"}

Thrown(kind) ==
    CASE kind = "quota" -> [isError |-> TRUE, name |-> "QuotaExceededError", message |-> "quota"]
      [] kind = "security" -> [isError |-> TRUE, name |-> "SecurityError", message |-> "insecure"]
      [] kind = "denied" -> [isError |-> TRUE, name |-> "Error", message |-> "access is denied"]
      [] kind = "other" -> [isError |-> TRUE, name |-> "TypeError", message |-> "other"]
      [] OTHER -> [isError |-> FALSE, name |-> "", message |-> ""]

\* The environment of one call: whether window exists, and what getItem and
\* setItem/removeItem do.
Envs ==
    {[hasWindow |-> FALSE, get |-> "ok", set |-> "ok"]}
    \cup {[hasWindow |-> TRUE, get |-> g, set |-> w] :
            g \in {"ok", "throws"}, w \in {"ok"} \cup ThrownKinds}

LoadReturn(list) == [threw |-> FALSE, value |-> list]

\* Variant: the catch block of loadSavedRegexes lets the error go on.
LoadCatchRethrow(error) == [threw |-> TRUE, value |-> <<>>]

\* catch (error) { console.error(...); return [] }
LoadCatch(error) == LoadReturn(<<>>)

loadSavedRegexes(st, env) ==
    IF ~env.hasWindow THEN LoadReturn(<<>>)
    ELSE IF env.get = "throws" THEN LoadCatch(Thrown("security"))
    ELSE IF st.kind = "null" THEN LoadReturn(<<>>)
    ELSE IF st.kind = "invalid" THEN LoadCatch(Thrown("other"))
    ELSE IF st.kind # "array" THEN LoadReturn(<<>>)
    ELSE LoadReturn(SelectSeq(st.items, IsSavedRegex))

SaveReturn(error, st) == [threw |-> FALSE, error |-> error, storage |-> st]

\* Variant: the catch block of saveSavedRegexes lets the error go on.
SaveCatchRethrow(error, st) == [threw |-> TRUE, error |-> "null", storage |-> st]

\* The catch block of saveSavedRegexes: the type of the StorageError.
SaveCatch(error, st) ==
    IF error.isError /\ (error.name = "QuotaExceededError" \/ error.message = "QuotaExceededError")
    THEN SaveReturn("quota_exceeded", st)
    ELSE IF error.isError /\ (error.name = "SecurityError" \/ error.message = "access is denied")
    THEN SaveReturn("not_available", st)
    ELSE SaveReturn("unknown", st)

saveSavedRegexes(st, regexes, env) ==
    IF ~env.hasWindow THEN SaveReturn("not_available", st)
    ELSE IF env.set = "ok" THEN SaveReturn("null", Stringify(regexes))
    ELSE SaveCatch(Thrown(env.set), st)

\* existing.findIndex((r) => r.id === regex.id), 0 when there is none.
FindIndex(existing, id) ==
    IF \E k \in 1..Len(existing) : existing[k].id = id
    THEN CHOOSE k \in 1..Len(existing) :
            existing[k].id = id /\ \A j \in 1..(k - 1) : existing[j].id # id
    ELSE 0

\* The list addSavedRegex hands to saveSavedRegexes.
Upsert(existing, r) ==
    IF FindIndex(existing, r.id) > 0
    THEN [existing EXCEPT ![FindIndex(existing, r.id)] = r]
    ELSE Append(existing, r)

\* existing.filter((r) => r.id !== id)
RECURSIVE WithoutId(_, _)
WithoutId(existing, id) ==
    IF existing = <<>> THEN <<>>
    ELSE (IF Head(existing).id # id THEN <<Head(existing)>> ELSE <<>>)
         \o WithoutId(Tail(existing), id)

\* The save that follows the load of addSavedRegex and removeSavedRegex:
\* what the call leaves and returns.
SaveLoaded(st, env, l, regexes) ==
    IF l.threw THEN [threw |-> TRUE, error |-> "null", storage |-> st, loaded |-> <<>>]
    ELSE LET w == saveSavedRegexes(st, regexes, env)
         IN [threw |-> w.threw, error |-> w.error, storage |-> w.storage, loaded |-> l.value]

addSavedRegex(st, r, env) ==
    LET l == loadSavedRegexes(st, env) IN SaveLoaded(st, env, l, Upsert(l.value, r))

removeSavedRegex(st, id, env) ==
    LET l == loadSavedRegexes(st, env) IN SaveLoaded(st, env, l, WithoutId(l.value, id))

clearAllSavedRegexes(st, env) ==
    IF ~env.hasWindow THEN SaveReturn("not_available", st)
    ELSE IF env.set = "ok" THEN SaveReturn("null", NoItem)
    ELSE SaveReturn("unknown", st)

\* One call of a storage.ts function: what is recorded about it.
Called(op, r, env, res, loaded) ==
    [op |-> op, id |-> r.id, record |-> r, env |-> env, threw |-> res.threw,
     error |-> res.error, before |-> storage, loaded |-> loaded]

Succeeded(res) == ~res.threw /\ res.error = "null"

StoreIds == {"p", "q"}

\* The descriptor lists of the stored patterns.
StoreCriteria ==
    { <<Criterion("1", "digit", <<>>, "one")>>, <<Criterion("1", "contains", <<"a">>, "one")>> }

\* The records handed to addSavedRegex: with a name, as the manual builder
\* makes them, and without one, as the auto-saving builder makes them.
StoreRecords ==
    {SavedRegex(id, name, cs, NoFlags, buildRegex(cs, NoFlags), 1) :
        id \in StoreIds, name \in {"spell", Undefined}, cs \in StoreCriteria}

\* Lists of records with pairwise distinct ids.
DistinctLists(records, n) ==
    UNION {{l \in [1..m -> records] : \A j, k \in 1..m : j # k => l[j].id # l[k].id} : m \in 0..n}

\* What the key may hold at the start: nothing, text that is not JSON, JSON
\* that is not an array, or a list with pairwise distinct ids.
InitialStorages ==
    {NoItem, InvalidJson, NotAnArray}
    \cup {Stringify(l) :
            l \in DistinctLists({r \in StoreRecords : r.criteria[1].type = "digit"}, 2)}

StoreAdd ==
    /\ nops < MaxStoreOps
    /\ \E r \in StoreRecords, env \in Envs :
         LET res == addSavedRegex(storage, r, env)
         IN /\ storage' = res.storage
            /\ storeOp' = Called("add", r, env, res, res.loaded)
            /\ kept' = IF Succeeded(res) THEN {k \in kept : k.id # r.id} \cup {r} ELSE kept
    /\ nops' = nops + 1
    /\ UNCHANGED <<criteria, flags, regex, built, callVars, pageVars>>

StoreRemove ==
    /\ nops < MaxStoreOps
    /\ \E id \in StoreIds, env \in Envs :
         LET res == removeSavedRegex(storage, id, env)
         IN /\ storage' = res.storage
            /\ storeOp' = Called("remove", [NoRecord EXCEPT !.id = id], env, res, res.loaded)
            /\ kept' = IF Succeeded(res) THEN {k \in kept : k.id # id} ELSE kept
    /\ nops' = nops + 1
    /\ UNCHANGED <<criteria, flags, regex, built, callVars, pageVars>>

StoreClear ==
    /\ nops < MaxStoreOps
    /\ \E env \in Envs :
         LET res == clearAllSavedRegexes(storage, env)
         IN /\ storage' = res.storage
            /\ storeOp' = Called("clear", NoRecord, env, res, <<>>)
            /\ kept' = IF Succeeded(res) THEN {} ELSE kept
    /\ nops' = nops + 1
    /\ UNCHANGED <<criteria, flags, regex, built, callVars, pageVars>>

StoreLoad ==
    /\ nops < MaxStoreOps
    /\ \E env \in Envs :
         LET res == loadSavedRegexes(storage, env)
         IN storeOp' = Called("load", NoRecord, env, [threw |-> res.threw, error |-> "null"],
                              res.value)
    /\ nops' = nops + 1
    /\ UNCHANGED <<storage, kept, criteria, flags, regex, built, callVars, pageVars>>

InitStorage ==
    /\ criteria = <<>>
    /\ flags = NoFlags
    /\ regex = <<>>
    /\ built = 0
    /\ InitCall
    /\ InitPageIdle
    /\ storage \in InitialStorages
    /\ storeOp = NoStoreOp
    /\ kept = {}
    /\ nops = 0

NextStorage == StoreAdd \/ StoreRemove \/ StoreClear \/ StoreLoad

SpecStorage == InitStorage /\ [][NextStorage]_vars

\* ------------------------------------------------------------------------
\* The page and the auto-saving RegexBuilder.  A user action runs its
\* handler; the render that follows and its effects are the step Commit,
\* and nothing else runs while a render is outstanding.
\* ------------------------------------------------------------------------
AUTO_SAVE_MS == 3000

QUICK_SAVE_MS == 500

\* Date.now() at the time of a save: later than every stored createdAt.
Now == 3

EmptyBody == <<"/", "/">>

\* The dependencies of the auto-save effect as the last render saw them.
Rendered(cs, fl, err, editing) ==
    [any |-> TRUE, criteria |-> cs, flags |-> fl, testError |-> err, editingRegex |-> editing]

\* The last render is up to date and its effects have run.
Settled == committed = Rendered(criteria, flags, testError, editingRegex)

\* A pending auto-save timer and what its callback closes over.
SaveTimer(id, kind, delay, cs, fl, rx, valid, editing) ==
    [id |-> id, kind |-> kind, remaining |-> delay, criteria |-> cs, flags |-> fl,
     regex |-> rx, isValidRegex |-> valid, editingRegex |-> editing]

\* Variant: the cleanup clears the timer in saveTimeoutRef only.
RunCleanupRefOnly(ts, cl, ref) ==
    IF ~cl.has THEN ts ELSE ClearTimeout(ts, ref)

\* The cleanup function of the auto-save effect.
RunCleanup(ts, cl, ref) ==
    IF ~cl.has THEN ts
    ELSE ClearTimeout(ClearTimeout(ts, cl.quick), ref)

\* Page.handleDelete, Page.handleSave: the Spellbook they leave.
DeletedFrom(list, id) == WithoutId(list, id)

SavedInto(list, saved) == <<saved>> \o WithoutId(list, saved.id)

LogDelete(log, id) == [log EXCEPT !.deletes = @ \cup {[id |-> id, after |-> log.user]}]

\* Render and effects: the cleanup of the previous auto-save effect, the
\* load effect when editingRegex changed, then the auto-save effect.
Commit ==
    /\ pc = "idle"
    /\ mounted
    /\ ~Settled
    /\ LET rx == buildRegex(criteria, flags)
           loads == (~committed.any \/ committed.editingRegex # editingRegex)
                    /\ editingRegex # NoRecord
           ts0 == RunCleanup(saveTimers, cleanup, saveTimeoutRef)
           ts1 == IF saveTimeoutRef # 0 THEN ClearTimeout(ts0, saveTimeoutRef) ELSE ts0
           isValidRegex == rx # EmptyBody /\ testError = "null"
           slow == SaveTimer(nextTimerId, "slow", AUTO_SAVE_MS, criteria, flags, rx,
                             isValidRegex, editingRegex)
           quick == SaveTimer(nextTimerId + 1, "quick", QUICK_SAVE_MS, criteria, flags, rx,
                              isValidRegex, editingRegex)
       IN /\ regex' = rx
          /\ committed' = Rendered(criteria, flags, testError, editingRegex)
          /\ criteria' = IF loads THEN editingRegex.criteria ELSE criteria
          /\ flags' = IF loads THEN editingRegex.flags ELSE flags
          /\ currentIdRef' = IF loads THEN editingRegex.id ELSE currentIdRef
          /\ IF criteria = <<>>
             THEN /\ saveTimers' = ts1
                  /\ cleanup' = NoCleanup
                  /\ UNCHANGED <<saveTimeoutRef, nextTimerId>>
                  /\ IF editingRegex # NoRecord
                     THEN /\ savedRegexes' = DeletedFrom(savedRegexes, editingRegex.id)
                          /\ storage' = removeSavedRegex(storage, editingRegex.id, OkEnv).storage
                          /\ editingRegex' = NoRecord
                          /\ pageLog' = LogDelete(pageLog, editingRegex.id)
                     ELSE UNCHANGED <<savedRegexes, storage, editingRegex, pageLog>>
             ELSE /\ saveTimeoutRef' = nextTimerId
                  /\ IF isValidRegex
                     THEN /\ saveTimers' = ts1 \cup {slow, quick}
                          /\ cleanup' = [has |-> TRUE, quick |-> nextTimerId + 1]
                          /\ nextTimerId' = nextTimerId + 2
                     ELSE /\ saveTimers' = ts1 \cup {slow}
                          /\ cleanup' = [has |-> TRUE, quick |-> 0]
                          /\ nextTimerId' = nextTimerId + 1
                  /\ UNCHANGED <<savedRegexes, storage, editingRegex, pageLog>>
    /\ UNCHANGED <<built, copied, ncopies, pc, ncalls, pattern, subject, patternMatch, re,
                   testMatches, timedOut, timeoutId, timers, outcome, hist, storeOp, kept,
                   nops, testError, mounted, nextId, nsteps>>

\* The callback of an auto-save timer; onSave is Page.handleSave.
SaveTimerFire ==
    /\ pc = "idle"
    /\ mounted
    /\ Settled
    /\ \E t \in saveTimers :
         /\ t.remaining = 0
         /\ saveTimers' = saveTimers \ {t}
         /\ IF t.kind = "quick" \/ (t.isValidRegex /\ Len(t.criteria) > 0)
            THEN LET saved == SavedRegex(currentIdRef, Undefined, t.criteria, t.flags, t.regex,
                                         IF t.editingRegex # NoRecord
                                         THEN t.editingRegex.createdAt ELSE Now)
                 IN /\ savedRegexes' = SavedInto(savedRegexes, saved)
                    /\ storage' = addSavedRegex(storage, saved, OkEnv).storage
                    /\ editingRegex' = NoRecord
                    /\ pageLog' = [pageLog EXCEPT !.lastSave =
                                     [fired |-> TRUE, kind |-> t.kind, saved |-> saved,
                                      criteria |-> criteria, flags |-> flags,
                                      testError |-> testError]]
            ELSE UNCHANGED <<savedRegexes, storage, editingRegex, pageLog>>
    /\ UNCHANGED <<criteria, flags, regex, built, callVars, storeOp, kept, nops, testError,
                   currentIdRef, saveTimeoutRef, cleanup, committed, mounted, nextId, nsteps>>

\* Nothing runs: time passes until the next auto-save timer is due.
PageIdle ==
    /\ pc = "idle"
    /\ mounted
    /\ Settled
    /\ saveTimers # {}
    /\ \A t \in saveTimers : t.remaining > 0
    /\ saveTimers' = Elapse(saveTimers, Min({t.remaining : t \in saveTimers}))
    /\ UNCHANGED <<criteria, flags, regex, built, callVars, storeVars, savedRegexes,
                   editingRegex, testError, currentIdRef, saveTimeoutRef, cleanup, committed,
                   mounted, nextId, nsteps, pageLog>>

\* A user action is taken when the page is at rest.
UserStep(name) ==
    /\ pc = "idle"
    /\ mounted
    /\ Settled
    /\ nsteps < MaxUserSteps
    /\ nsteps' = nsteps + 1
    /\ UNCHANGED <<regex, built, callVars, storeOp, kept, nops, saveTimeoutRef, saveTimers,
                   cleanup, committed, mounted>>

Did(name) == [pageLog EXCEPT !.user = name]

\* Page.handleEdit: the pencil of a Spellbook entry.
HandleEdit ==
    /\ UserStep("edit")
    /\ \E k \in 1..Len(savedRegexes) :
         /\ editingRegex' = savedRegexes[k]
         /\ pageLog' = [pageLog EXCEPT !.user = "edit", !.edited = savedRegexes[k].id]
    /\ UNCHANGED <<criteria, flags, storage, savedRegexes, testError, currentIdRef, nextId>>

\* Page.handleNew, which is handleCancelEdit.
HandleNew ==
    /\ UserStep("new")
    /\ editingRegex' = NoRecord
    /\ pageLog' = Did("new")
    /\ UNCHANGED <<criteria, flags, storage, savedRegexes, testError, currentIdRef, nextId>>

\* SavedRegexSidebar.confirmDelete: "Delete Forever"; onDelete is
\* Page.handleDelete.
ConfirmDelete ==
    /\ UserStep("confirmDelete")
    /\ \E k \in 1..Len(savedRegexes) :
         LET id == savedRegexes[k].id
         IN /\ savedRegexes' = DeletedFrom(savedRegexes, id)
            /\ storage' = removeSavedRegex(storage, id, OkEnv).storage
            /\ pageLog' = LogDelete(Did("confirmDelete"), id)
    /\ UNCHANGED <<criteria, flags, editingRegex, testError, currentIdRef, nextId>>

AddCriterion ==
    /\ UserStep("addCriterion")
    /\ criteria' = Append(criteria, Criterion(GenerateId(nextId + 1), "contains", <<>>, "one"))
    /\ nextId' = nextId + 1
    /\ pageLog' = Did("addCriterion")
    /\ UNCHANGED <<flags, storage, savedRegexes, editingRegex, testError, currentIdRef>>

RemoveCriterion ==
    /\ UserStep("removeCriterion")
    /\ \E k \in 1..Len(criteria) : criteria' = WithoutId(criteria, criteria[k].id)
    /\ pageLog' = Did("removeCriterion")
    /\ UNCHANGED <<flags, storage, savedRegexes, editingRegex, testError, currentIdRef, nextId>>

\* updateCriterion(id, field, value) for the fields the user edits here.
UpdateCriterion ==
    /\ UserStep("updateCriterion")
    /\ \E k \in 1..Len(criteria) :
         \/ criteria' = [criteria EXCEPT ![k].value = <<"b">>] /\ criteria[k].value # <<"b">>
         \/ criteria' = [criteria EXCEPT ![k].type = "word_char"] /\ criteria[k].type # "word_char"
    /\ pageLog' = Did("updateCriterion")
    /\ UNCHANGED <<flags, storage, savedRegexes, editingRegex, testError, currentIdRef, nextId>>

\* The switch of the global flag.
ToggleFlag ==
    /\ UserStep("toggleFlag")
    /\ flags' = [flags EXCEPT !.global = ~@]
    /\ pageLog' = Did("toggleFlag")
    /\ UNCHANGED <<criteria, storage, savedRegexes, editingRegex, testError, currentIdRef, nextId>>

\* RegexBuilder.handleTest: the error of testRegexSafe(regex, testString),
\* if it reports one.
HandleTest ==
    /\ UserStep("test")
    /\ IF regex = <<>> \/ regex = EmptyBody
       THEN testError' = "null"
       ELSE testError' \in {"null", EngineRunMsg}
    /\ pageLog' = Did("test")
    /\ UNCHANGED <<criteria, flags, storage, savedRegexes, editingRegex, currentIdRef, nextId>>

\* RegexBuilder.handleReset: the confirmed "Delete" of the builder.
HandleReset ==
    /\ UserStep("reset")
    /\ IF editingRegex # NoRecord
       THEN /\ savedRegexes' = DeletedFrom(savedRegexes, editingRegex.id)
            /\ storage' = removeSavedRegex(storage, editingRegex.id, OkEnv).storage
            /\ pageLog' = LogDelete(Did("reset"), editingRegex.id)
       ELSE /\ pageLog' = Did("reset")
            /\ UNCHANGED <<savedRegexes, storage>>
    /\ criteria' = <<>>
    /\ flags' = NoFlags
    /\ testError' = "null"
    /\ currentIdRef' = GenerateId(nextId + 1)
    /\ nextId' = nextId + 1
    /\ editingRegex' = NoRecord

\* RegexBuilder leaves the page: React runs the last cleanup.
Unmount ==
    /\ pc = "idle"
    /\ mounted
    /\ Settled
    /\ mounted' = FALSE
    /\ saveTimers' = RunCleanup(saveTimers, cleanup, saveTimeoutRef)
    /\ UNCHANGED <<criteria, flags, regex, built, callVars, storeVars, savedRegexes,
                   editingRegex, testError, currentIdRef, saveTimeoutRef, cleanup, committed,
                   nextId, nsteps, pageLog>>

\* b.createdAt - a.createdAt: most recent first.
RECURSIVE SortByCreatedAt(_)
SortByCreatedAt(list) ==
    IF list = <<>> THEN <<>>
    ELSE LET k == CHOOSE j \in 1..Len(list) :
                     /\ \A i \in 1..Len(list) : list[j].createdAt >= list[i].createdAt
                     /\ \A i \in 1..(j - 1) : list[i].createdAt < list[j].createdAt
         IN <<list[k]>> \o SortByCreatedAt(SubSeq(list, 1, k - 1) \o SubSeq(list, k + 1, Len(list)))

\* The patterns saved before the page is opened.
PageRecords ==
    { SavedRegex("p", "spell", <<Criterion("1", "digit", <<>>, "one")>>, NoFlags,
                 <<"/", "\\", "d", "/">>, 1),
      SavedRegex("q", "charm", <<Criterion("1", "contains", <<"a">>, "one")>>, NoFlags,
                 <<"/", "a", "/">>, 2) }

\* The page after its first effect: the Spellbook loaded and sorted, the
\* builder mounted and empty, its first render not yet committed.
InitPage ==
    /\ criteria = <<>>
    /\ flags = NoFlags
    /\ regex = <<>>
    /\ built = 0
    /\ InitCall
    /\ storage \in {Stringify(l) : l \in DistinctLists(PageRecords, 2)}
    /\ storeOp = NoStoreOp
    /\ kept = {}
    /\ nops = 0
    /\ savedRegexes = SortByCreatedAt(loadSavedRegexes(storage, OkEnv).value)
    /\ editingRegex = NoRecord
    /\ testError = "null"
    /\ currentIdRef = GenerateId(1)
    /\ saveTimeoutRef = 0
    /\ saveTimers = {}
    /\ cleanup = NoCleanup
    /\ committed = NotRendered
    /\ mounted = TRUE
    /\ nextId = 1
    /\ nsteps = 0
    /\ pageLog = NoPageLog

NextPage ==
    \/ Commit \/ SaveTimerFire \/ PageIdle \/ Unmount
    \/ HandleEdit \/ HandleNew \/ ConfirmDelete \/ HandleReset \/ HandleTest
    \/ AddCriterion \/ RemoveCriterion \/ UpdateCriterion \/ ToggleFlag

SpecPage == InitPage /\ [][NextPage]_vars

\* ------------------------------------------------------------------------
\* Properties
\* ------------------------------------------------------------------------
\* The last call has returned to its caller.
Returned == pc = "idle" /\ ncalls > 0

\* C1: for every descriptor list and every flag combination,
\* testRegexSafe(buildRegex(criteria, flags), subject) never returns the
\* malformed-delimiter error.
C1_RoundTrip ==
    (Returned /\ pattern = buildRegex(criteria, flags))
        => ~(outcome.hasError /\ outcome.error = InvalidFormatMsg)

\* C2: whenever the timer of the call is due by the time the boolean run
\* re.test completes, the call returns matches=false, matchedParts=[] and
\* the budget-exceeded error.
C2_BudgetOnTest ==
    (Returned /\ hist.ranTest /\ hist.dueAfterTest) => outcome = Failure(TimeoutMsg)

\* C3: whenever the timer of the call is due by the time the collecting run
\* completes, that run's result is discarded and the call returns
\* matches=false, matchedParts=[] and the budget-exceeded error.
C3_BudgetOnCollect ==
    (Returned /\ hist.ranCollect /\ hist.dueAfterCollect) => outcome = Failure(TimeoutMsg)

\* C4: whenever no call is running (every call has returned, by whichever
\* exit path), no timer created by testRegexSafe is pending.
C4_TimerTeardown ==
    pc = "idle" => \A t \in timers : t.kind # "regexTimeout"

\* A call that started its timer has left through the catch block, the
\* constructor having thrown while the timer still had time to run.
C4_Witness ==
    /\ Returned
    /\ hist.created = 1
    /\ outcome = Failure(UnterminatedGroupMsg)
    /\ ~hist.dueAfterTest

\* C5: no exception leaves testRegexSafe: every call returns an outcome
\* object, and an outcome with an error has matches=false and
\* matchedParts=[].
C5_NeverThrows ==
    /\ outcome.kind # "threw"
    /\ Returned =>
         /\ outcome.kind = "returned"
         /\ outcome.hasError => (outcome.matches = FALSE /\ outcome.matchedParts = <<>>)

\* The collecting run threw after the boolean run had found a match.
C5_Witness ==
    /\ Returned
    /\ testMatches = TRUE
    /\ hist.ranTest
    /\ outcome = Failure(EngineRunMsg)

\* C6: for the pattern "" or "//" the call returns at once matches=false,
\* matchedParts=[] and no error, having created no timer and compiled
\* nothing.
C6_EmptyPattern ==
    (ncalls > 0 /\ pattern \in {<<>>, <<"/", "/">>}) =>
        /\ pc = "idle"
        /\ outcome = Success(FALSE, <<>>)
        /\ hist.created = 0
        /\ hist.compiles = 0
        /\ timers = {}

C6_Witness == Returned /\ pattern = <<"/", "/">> /\ subject # <<>>

\* The shape /<body>/<flags>: a leading "/", a later "/", and only legal
\* flag letters after the last one.
HasDelimitedForm(p) ==
    \E k \in 2..Len(p) :
        /\ p[1] = "/"
        /\ p[k] = "/"
        /\ \A j \in (k+1)..Len(p) : p[j] \in {"g", "i", "m", "s", "u", "y"}

\* C7: a pattern that is neither "" nor "//" and has not the shape
\* /<body>/<flags> yields matches=false, matchedParts=[] and the error
\* 'Invalid regex pattern format', and the engine is never asked to compile.
C7_Malformed ==
    (ncalls > 0 /\ pattern \notin {<<>>, <<"/", "/">>} /\ ~HasDelimitedForm(pattern)) =>
        /\ pc = "idle"
        /\ outcome = Failure(InvalidFormatMsg)
        /\ hist.compiles = 0
        /\ hist.created = 0

\* A pattern with a letter after the closing delimiter that is no flag.
C7_Witness == Returned /\ pattern = <<"/", "a", "/", "a">> /\ outcome.hasError

\* C8: when the pattern passed the format check and the engine refused to
\* compile it, the call returns matches=false, matchedParts=[] and the
\* engine's own message, which is neither of the two fixed messages.
C8_EngineRejected ==
    (Returned /\ hist.rejected # "") =>
        /\ patternMatch.ok
        /\ outcome = Failure(hist.rejected)
        /\ hist.rejected \notin {InvalidFormatMsg, TimeoutMsg}

C8_Witness ==
    /\ Returned
    /\ patternMatch.ok
    /\ hist.rejected = NothingToRepeatMsg
    /\ outcome.hasError

\* C9: on success, matches is the result of testing the subject with the
\* body and flags of the pattern, and matchedParts is the list of all
\* matches with the same body and the same flags plus g (added only when
\* absent), [] when there is none.
C9_ResultAssembly ==
    (Returned /\ ~outcome.hasError /\ pattern \notin {<<>>, <<"/", "/">>}) =>
        LET pm == PatternMatch(pattern)
            gfl == IF "g" \in Chars(pm.flags) THEN pm.flags ELSE Append(pm.flags, "g")
        IN /\ pm.ok
           /\ hist.testFlags = pm.flags
           /\ hist.matchFlags = gfl
           /\ outcome.matches = Exec(RegExpObject(pm.body, pm.flags), subject, 1).found
           /\ outcome.matchedParts = MatchAllFrom(RegExpObject(pm.body, gfl), subject, 1)

\* A pattern without the g flag whose collecting pass found two matches.
C9_Witness ==
    /\ Returned
    /\ ~outcome.hasError
    /\ ~Includes(patternMatch.flags, "g")
    /\ outcome.matches = TRUE
    /\ Len(outcome.matchedParts) = 2

\* C10: the only testRegexSafe timer that ever exists is the one of the
\* running call; a call's timedOut flag is set only by that call's own
\* timer, and a call reports budget-exceeded only if its own flag is set.
C10_Isolation ==
    /\ \A t \in timers :
         t.kind = "regexTimeout" => (pc # "idle" /\ t.owner = ncalls /\ t.id = timeoutId)
    /\ \A c \in DOMAIN timedOut : timedOut[c] => c \in hist.fired
    /\ (outcome.hasError /\ outcome.error = TimeoutMsg) => timedOut[ncalls]

\* The timer of the first call became due during that call, and the second
\* call has returned a result within its own budget.
C10_Witness ==
    /\ Returned
    /\ ncalls >= 2
    /\ 1 \in hist.expired
    /\ ncalls \notin hist.expired
    /\ hist.ranCollect
    /\ ~outcome.hasError

\* C11: buildRegex([], flags) is the empty string for every flag
\* combination, and for a non-empty list the result is not empty and begins
\* with "/".
C11_EmptyInput ==
    built > 0 =>
        /\ criteria = <<>> => regex = <<>>
        /\ criteria # <<>> => (regex # <<>> /\ regex[1] = "/")

\* The empty list compiled with flags set.
C11_Witness == built > 0 /\ criteria = <<>> /\ flags.global /\ flags.dotAll /\ regex = <<>>

\* The letters of a flag set: the subsequence of g, i, m, s that is enabled.
IsOn(fl, letter) ==
    \/ letter = "g" /\ fl.global
    \/ letter = "i" /\ fl.caseInsensitive
    \/ letter = "m" /\ fl.multiline
    \/ letter = "s" /\ fl.dotAll

RECURSIVE LettersFrom(_, _)
LettersFrom(fl, order) ==
    IF order = <<>> THEN <<>>
    ELSE (IF IsOn(fl, Head(order)) THEN <<Head(order)>> ELSE <<>>)
         \o LettersFrom(fl, Tail(order))

ClaimLetters(fl) == LettersFrom(fl, <<"g", "i", "m", "s">>)

\* C12: for a non-empty list the result is "/" body "/" letters, letters
\* being the enabled ones of g, i, m, s in that order, and the body is the
\* same under every flag combination.
C12_ShapeAndFlagOrder ==
    (built > 0 /\ criteria # <<>>) =>
        LET letters == ClaimLetters(flags)
            n == Len(regex) - Len(letters)
            body == SubSeq(regex, 2, n - 1)
        IN /\ n >= 2
           /\ regex[1] = "/"
           /\ regex[n] = "/"
           /\ SubSeq(regex, n + 1, Len(regex)) = letters
           /\ \A fl2 \in AllFlags :
                buildRegex(criteria, fl2) = <<"/">> \o body \o <<"/">> \o ClaimLetters(fl2)

\* Two descriptors compiled with all four flags set.
C12_Witness ==
    /\ built > 0
    /\ Len(criteria) = 2
    /\ flags.global /\ flags.caseInsensitive /\ flags.multiline /\ flags.dotAll
    /\ SubSeq(regex, Len(regex) - 4, Len(regex)) = <<"/", "g", "i", "m", "s">>

\* Where the text of criteria[i] starts in regex: after the opening "/" and
\* the text of the descriptors before it.
RECURSIVE StartOf(_)
StartOf(i) == IF i = 1 THEN 2 ELSE StartOf(i - 1) + Len(Fragment(criteria, i - 1))

\* The text criteria[i] contributed to the compiled string.
EmittedFragment(i) == SubSeq(regex, StartOf(i), StartOf(i + 1) - 1)

Open == <<"(", "?", ":">>

Close == <<")">>

AnchoredTypes == {"starts_with", "ends_with", "exact"}

\* The grouping condition as the rule states it (index i counted from 1).
GroupingApplies(i) ==
    /\ i > 1
    /\ criteria[i].type \in {"contains", "literal", "ends_with"}
    /\ Len(criteria[i].value) > 1

\* The suffix of a repetition value as the rule states it.
ClaimSuffix(q) ==
    IF q = "zero_or_more" THEN <<"*">>
    ELSE IF q = "one_or_more" THEN <<"+">>
    ELSE IF q = "optional" THEN <<"?">>
    ELSE IF q = "lazy" THEN <<"*", "?">>
    ELSE <<>>

\* C14: the text emitted for the descriptor at position i carries the
\* automatic (?:...) wrapper exactly when it is not the first, its kind is
\* contains, literal or ends_with and its value is longer than one character;
\* in every other case the part is emitted bare.
C14_GroupingRule ==
    built > 0 =>
        \A i \in 1..Len(criteria) :
            LET c == criteria[i]
                rest == QuantifierSuffix(c) \o TypeAnchor(c)
                frag == EmittedFragment(i)
                wrapped == frag = Open \o TypePart(c) \o Close \o rest
                bare == frag = TypePart(c) \o rest
            IN /\ wrapped \/ bare
               /\ wrapped <=> GroupingApplies(i)

\* A two-character literal in second position is wrapped, the two-character
\* contains before it is not.
C14_Witness ==
    /\ built > 0
    /\ Len(criteria) = 2
    /\ criteria[1].type = "contains" /\ criteria[1].value = <<"a", "b">>
    /\ criteria[2].type = "literal" /\ criteria[2].value = <<"a", "b">>
    /\ criteria[2].quantifier = "one"
    /\ regex = <<"/", "a", "b", "*", "(", "?", ":", "a", "b", ")", "/">>

\* C15: for a kind other than starts_with, ends_with and exact, the emitted
\* text is the part, wrapped or not, followed by exactly the suffix of the
\* repetition: * + ? *? for zero_or_more, one_or_more, optional, lazy, and
\* nothing for every other value; the suffix follows the wrapper's ")".
C15_QuantifierSuffix ==
    built > 0 =>
        \A i \in 1..Len(criteria) :
            LET c == criteria[i]
            IN c.type \notin AnchoredTypes =>
                 \E w \in BOOLEAN :
                    /\ w <=> GroupingApplies(i)
                    /\ EmittedFragment(i)
                         = (IF w THEN Open \o TypePart(c) \o Close ELSE TypePart(c))
                           \o ClaimSuffix(c.quantifier)

\* A wrapped contains with lazy repetition: the suffix is after the ")".
C15_Witness ==
    /\ built > 0
    /\ Len(criteria) = 2
    /\ criteria[1].type = "starts_with"
    /\ criteria[2].type = "contains" /\ criteria[2].value = <<"a", "b">>
    /\ criteria[2].quantifier = "lazy"
    /\ regex = <<"/", "^", "a", "(", "?", ":", "a", "b", ")", "*", "?", "/">>

\* C16: for a descriptor of kind starts_with, ends_with or exact, at any
\* position, the compiled string is the same for every value of its
\* repetition field.
C16_AnchoredNoQuantifier ==
    built > 0 =>
        \A i \in 1..Len(criteria) :
            criteria[i].type \in AnchoredTypes =>
                \A q \in Quantifiers \cup {OtherQuantifier} :
                    buildRegex([criteria EXCEPT ![i].quantifier = q], flags) = regex

\* An ends_with in second position with repetition one_or_more.
C16_Witness ==
    /\ built > 0
    /\ Len(criteria) = 2
    /\ criteria[1].type = "digit"
    /\ criteria[2].type = "ends_with" /\ criteria[2].value = <<"a", "b">>
    /\ criteria[2].quantifier = "one_or_more"
    /\ regex = <<"/", "\\", "d", "+", "(", "?", ":", "a", "b", ")", "$", "/">>

\* C17: the text emitted for an ends_with descriptor is the escaped value,
\* wrapped in (?:...) when the grouping rule applies, followed immediately by
\* "$": the "$" is outside the wrapper and is the last character contributed.
C17_EndsWithAnchor ==
    built > 0 =>
        \A i \in 1..Len(criteria) :
            LET c == criteria[i]
                frag == EmittedFragment(i)
            IN c.type = "ends_with" =>
                 /\ frag = (IF GroupingApplies(i)
                            THEN Open \o escapeRegex(c.value) \o Close
                            ELSE escapeRegex(c.value)) \o <<"$">>
                 /\ frag[Len(frag)] = "$"

\* A wrapped ends_with after a contains.
C17_Witness ==
    /\ built > 0
    /\ Len(criteria) = 2
    /\ criteria[1].type = "contains"
    /\ criteria[2].type = "ends_with" /\ criteria[2].value = <<"a", "b">>
    /\ criteria[2].quantifier = "one"
    /\ regex = <<"/", "a", "b", "*", "(", "?", ":", "a", "b", ")", "$", "/">>

\* C19: a descriptor whose kind is outside the fifteen kinds compiles to the
\* same string as the same list with that kind replaced by literal.
C19_UnknownAsLiteral ==
    built > 0 =>
        \A i \in 1..Len(criteria) :
            criteria[i].type \notin CriterionTypes =>
                regex = buildRegex([criteria EXCEPT ![i].type = "literal"], flags)

\* The special set as the rule lists it: . * + ? ^ $ { } ( ) | [ ] \
ListedSpecials == <<".", "*", "+", "?", "^", "$", "{", "}", "(", ")", "|", "[", "]", "\\">>

IsListedSpecial(ch) == \E k \in 1..Len(ListedSpecials) : ListedSpecials[k] = ch

\* How many of the first k characters of v are special.
SpecialsUpTo(v, k) == Cardinality({j \in 1..k : IsListedSpecial(v[j])})

\* Where the k-th character of v lands in the escaped string.
EscapedPos(v, k) == k + SpecialsUpTo(v, k)

\* Dropping each inserted backslash: a backslash is removed and the character
\* after it is kept.
RECURSIVE DropBackslashes(_)
DropBackslashes(e) ==
    IF e = <<>> THEN <<>>
    ELSE IF Head(e) = "\\" /\ Len(e) >= 2
         THEN <<e[2]>> \o DropBackslashes(SubSeq(e, 3, Len(e)))
         ELSE <<Head(e)>> \o DropBackslashes(Tail(e))

\* C18: escapeRegex puts a backslash before every character of the special
\* set and copies every other character unchanged and in order; a string
\* without special characters comes back unchanged, and the input is
\* recovered from the output by dropping each inserted backslash.
C18_EscapeRegex ==
    built > 0 =>
        LET v == criteria[1].value
            e == SubSeq(regex, 2, Len(regex) - 1)
        IN /\ Len(e) = Len(v) + SpecialsUpTo(v, Len(v))
           /\ \A k \in 1..Len(v) :
                /\ e[EscapedPos(v, k)] = v[k]
                /\ IsListedSpecial(v[k]) => e[EscapedPos(v, k) - 1] = "\\"
           /\ SpecialsUpTo(v, Len(v)) = 0 => e = v
           /\ DropBackslashes(e) = v

\* A backslash followed by a dot: both are escaped.
C18_Witness ==
    /\ built > 0
    /\ criteria[1].value = <<"\\", ".">>
    /\ regex = <<"/", "\\", "\\", "\\", ".", "/">>

\* The positions that delimit the pieces of v: before the first character,
\* each comma, and after the last character.
Cuts(v) == {0, Len(v) + 1} \cup {k \in 1..Len(v) : v[k] = ","}

\* A piece without its leading and trailing whitespace.
Trimmed(p) ==
    LET keep == {k \in 1..Len(p) : p[k] \notin WhiteSpace}
    IN IF keep = {} THEN <<>>
       ELSE SubSeq(p, CHOOSE a \in keep : \A k \in keep : a <= k,
                      CHOOSE b \in keep : \A k \in keep : b >= k)

\* The pieces of v from cut a on, trimmed, escaped and joined by "|".
RECURSIVE AlternativesAfter(_, _)
AlternativesAfter(v, a) ==
    LET b == CHOOSE c \in Cuts(v) : c > a /\ \A d \in Cuts(v) : d > a => c <= d
        piece == escapeRegex(Trimmed(SubSeq(v, a + 1, b - 1)))
    IN IF b = Len(v) + 1 THEN piece
       ELSE piece \o <<"|">> \o AlternativesAfter(v, b)

\* C20: the text emitted for an or descriptor is "(?:", the pieces of value
\* split on commas, each trimmed and escaped, joined by "|", then ")" and the
\* quantifier suffix: one wrapper only, at the first position and after it.
C20_OrFragment ==
    built > 0 =>
        \A i \in 1..Len(criteria) :
            LET c == criteria[i]
            IN c.type = "or" =>
                 EmittedFragment(i)
                   = Open \o AlternativesAfter(c.value, 0) \o Close \o ClaimSuffix(c.quantifier)

\* An or in second position whose pieces need trimming and escaping.
C20_Witness ==
    /\ built > 0
    /\ Len(criteria) = 2
    /\ criteria[1].type = "starts_with"
    /\ criteria[2].type = "or" /\ criteria[2].value = <<"a", " ", ",", " ", ".">>
    /\ criteria[2].quantifier = "one_or_more"
    /\ regex = <<"/", "^", "a", "(", "?", ":", "a", "|", "\\", ".", ")", "+", "/">>

\* C21: for custom_class, not and group the value is inserted as it is,
\* giving "[" value "]", "[^" value "]" and "(" value ")", followed by the
\* quantifier suffix; no character of the value is altered.
C21_RawInsertion ==
    built > 0 =>
        \A i \in 1..Len(criteria) :
            LET c == criteria[i]
                frag == EmittedFragment(i)
                suffix == ClaimSuffix(c.quantifier)
            IN /\ c.type = "custom_class" => frag = <<"[">> \o c.value \o <<"]">> \o suffix
               /\ c.type = "not" => frag = <<"[", "^">> \o c.value \o <<"]">> \o suffix
               /\ c.type = "group" => frag = <<"(">> \o c.value \o <<")">> \o suffix

\* A custom class whose value is a special character, after a digit.
C21_Witness ==
    /\ built > 0
    /\ Len(criteria) = 2
    /\ criteria[1].type = "digit"
    /\ criteria[2].type = "custom_class" /\ criteria[2].value = <<".">>
    /\ criteria[2].quantifier = "optional"
    /\ regex = <<"/", "\\", "d", "+", "[", ".", "]", "?", "/">>

\* Identifiers a relabelled list may carry, equal ones included.
OtherIds == {"1", "2", "x"}

\* C22: a list that differs from the compiled one only in its id fields
\* compiles to the same string, under every flag set.
C22_IdIrrelevance ==
    built > 0 =>
        \A ids \in [1..Len(criteria) -> OtherIds] :
            buildRegex([k \in 1..Len(criteria) |-> [criteria[k] EXCEPT !.id = ids[k]]], flags)
                = regex

\* Two descriptors, the second one grouped, compiled with a flag set.
C22_Witness ==
    /\ built > 0
    /\ Len(criteria) = 2
    /\ criteria[1].id # criteria[2].id
    /\ criteria[2].type = "contains"
    /\ flags.global /\ ~flags.multiline
    /\ SubSeq(regex, Len(regex) - 7, Len(regex) - 3) = <<"?", ":", "a", "b", ")">>

\* C25: whenever a quantifier suffix is appended to the text of a contains or
\* literal descriptor whose value has more than one character, that text is
\* wrapped in (?:...), at every position of the list, the first included.
C25_QuantifierScope ==
    built > 0 =>
        \A i \in 1..Len(criteria) :
            LET c == criteria[i]
            IN (/\ c.type \in {"contains", "literal"}
                /\ Len(c.value) > 1
                /\ ClaimSuffix(c.quantifier) # <<>>)
               => EmittedFragment(i)
                    = Open \o escapeRegex(c.value) \o Close \o ClaimSuffix(c.quantifier)

\* The body of a compiled string: between the first "/" and the "/" before
\* the flag letters.
BodyOf(r, fl) == SubSeq(r, 2, Len(r) - 1 - Len(ClaimLetters(fl)))

\* C26: the body is the concatenation, left to right, of one text per
\* descriptor, and the text of a descriptor is the one it gets alone (when it
\* is the first) or after any other single descriptor (when it is not): it
\* does not depend on its neighbours or on the length of the list.
C26_ConcatenationLocality ==
    (built > 0 /\ criteria # <<>>) =>
        /\ regex[1] = "/"
        /\ regex[Len(regex)] = "/"
        /\ StartOf(Len(criteria) + 1) = Len(regex)
        /\ \A i \in 1..Len(criteria) :
             LET c == criteria[i]
             IN IF i = 1
                THEN BodyOf(buildRegex(<<c>>, flags), flags) = EmittedFragment(1)
                ELSE \A p \in ContextCriteria :
                        BodyOf(buildRegex(<<p, c>>, flags), flags)
                            = BodyOf(buildRegex(<<p>>, flags), flags) \o EmittedFragment(i)

\* A list whose first descriptor would be grouped anywhere but first and
\* whose second is grouped.
C26_Witness ==
    /\ built > 0
    /\ Len(criteria) = 2
    /\ criteria[1].type = "literal" /\ criteria[1].value = <<"a", "b">>
    /\ criteria[1].quantifier = "one"
    /\ criteria[2].type = "contains" /\ criteria[2].value = <<"a", "b">>
    /\ regex = <<"/", "a", "b", "(", "?", ":", "a", "b", ")", "*", "/">>

\* C30: in every outcome without an error, matches is true exactly when
\* matchedParts is not empty (bodies the engine model evaluates exactly).
C30_TwoPasses ==
    (/\ Returned
     /\ ~outcome.hasError
     /\ PatternMatch(pattern).ok => EngineModelled(PatternMatch(pattern).body))
        => (outcome.matches <=> outcome.matchedParts # <<>>)

\* A zero-width match: matches is true and the first matched part is empty.
C30_Witness ==
    /\ Returned
    /\ ~outcome.hasError
    /\ outcome.matches
    /\ outcome.matchedParts # <<>>
    /\ outcome.matchedParts[1] = <<>>

\* A call's load or save step ran without a fault of the environment.
FaultFree(env) == env.hasWindow /\ env.get = "ok" /\ env.set = "ok"

\* What loadSavedRegexes() returns now, in a working environment.
LoadedNow == loadSavedRegexes(storage, OkEnv).value

\* C23: when addSavedRegex(r) returned null, a following loadSavedRegexes()
\* returns a list with exactly one entry of id r.id, equal to r, and with
\* every entry saved by an earlier successful call and not removed since.
C23_SaveThenLoad ==
    (storeOp.op = "add" /\ ~storeOp.threw /\ storeOp.error = "null") =>
        /\ Cardinality({k \in 1..Len(LoadedNow) : LoadedNow[k].id = storeOp.id}) = 1
        /\ \E k \in 1..Len(LoadedNow) : LoadedNow[k] = storeOp.record
        /\ \A r \in kept : \E k \in 1..Len(LoadedNow) : LoadedNow[k] = r

\* The call read the key and the read failed or gave unusable data.
ReadFailed ==
    /\ storeOp.op \in {"load", "add", "remove"}
    /\ \/ ~storeOp.env.hasWindow
       \/ storeOp.env.get = "throws"
       \/ storeOp.before.kind \in {"invalid", "object"}

\* The call wrote the key (or removed it) and the write failed.
WriteFailed ==
    /\ storeOp.op \in {"add", "remove", "clear"}
    /\ ~storeOp.env.hasWindow \/ storeOp.env.set # "ok"

\* C24: no storage.ts function throws, whatever localStorage does; a failed
\* read yields the empty list, a failed write yields a StorageError of type
\* quota_exceeded, not_available or unknown and leaves the stored data as it
\* was.
C24_StorageFailures ==
    storeOp.op # "none" =>
        /\ ~storeOp.threw
        /\ ReadFailed => storeOp.loaded = <<>>
        /\ WriteFailed =>
             /\ storeOp.error \in {"quota_exceeded", "not_available", "unknown"}
             /\ storage = storeOp.before
        /\ storeOp.op = "load" => storeOp.error = "null"

\* addSavedRegex over a non-empty list when setItem throws the quota error.
C24_Witness ==
    /\ storeOp.op = "add"
    /\ storeOp.env.set = "quota"
    /\ storeOp.error = "quota_exceeded"
    /\ storeOp.before.kind = "array"
    /\ Len(storeOp.loaded) > 0
    /\ storage = storeOp.before

\* The list loadSavedRegexes() returned before the last call.
LoadedBefore == loadSavedRegexes(storeOp.before, OkEnv).value

\* C29: the ids of the loaded list stay pairwise distinct; addSavedRegex
\* replaces the entry of a present id in place and appends a new id at the
\* end; removeSavedRegex(id) removes that entry and keeps the others in
\* order (calls in a working environment).
C29_UniqueIds ==
    (storeOp.op \in {"add", "remove", "clear"} /\ FaultFree(storeOp.env)) =>
        LET was == LoadedBefore
            now == LoadedNow
            at == {k \in 1..Len(was) : was[k].id = storeOp.id}
        IN /\ \A j, k \in 1..Len(now) : j # k => now[j].id # now[k].id
           /\ storeOp.op = "add" =>
                IF at = {} THEN now = Append(was, storeOp.record)
                ELSE \E k \in at : now = [was EXCEPT ![k] = storeOp.record]
           /\ storeOp.op = "remove" =>
                IF at = {} THEN now = was
                ELSE \E k \in at : now = SubSeq(was, 1, k - 1) \o SubSeq(was, k + 1, Len(was))
           /\ storeOp.op = "clear" => now = <<>>

\* The ids of the Spellbook the page shows.
SpellbookIds == {savedRegexes[k].id : k \in 1..Len(savedRegexes)}

\* C27: choosing a pattern for editing does not delete it: once the effects
\* of the edit have run its id is still in the Spellbook, and every onDelete
\* call follows the removal of a criterion or a confirmed Delete.
C27_EditingKeeps ==
    /\ \A d \in pageLog.deletes : d.after \in {"removeCriterion", "reset", "confirmDelete"}
    /\ (mounted /\ Settled /\ pageLog.user = "edit") => pageLog.edited \in SpellbookIds

\* C28: at rest every pending auto-save timer was scheduled for the current
\* criteria, flags, regex, test error and editing target, none is left after
\* the unmount, and every onSave call carries a non-empty criteria list, a
\* regex other than "//", the criteria and flags current when it fires, and is
\* made while no test error is shown.
C28_NoStaleAutoSave ==
    /\ (mounted /\ Settled) =>
          \A t \in saveTimers :
             /\ t.criteria = criteria
             /\ t.flags = flags
             /\ t.regex = buildRegex(criteria, flags)
             /\ t.editingRegex = editingRegex
             /\ t.isValidRegex <=> (testError = "null" /\ t.regex # EmptyBody)
    /\ ~mounted => saveTimers = {}
    /\ pageLog.lastSave.fired =>
          LET s == pageLog.lastSave
          IN /\ s.saved.criteria # <<>>
             /\ s.saved.regex # EmptyBody
             /\ s.saved.criteria = s.criteria
             /\ s.saved.flags = s.flags
             /\ s.saved.regex = buildRegex(s.criteria, s.flags)
             /\ s.testError = "null"

\* The 3000 ms timer saved a pattern whose flags the user had changed.
C28_Witness ==
    /\ pageLog.lastSave.fired
    /\ pageLog.lastSave.kind = "slow"
    /\ pageLog.lastSave.saved.flags.global
    /\ pageLog.lastSave.saved.criteria # <<>>
    /\ nsteps >= 2

====
